---- MODULE Spec2Model ----
(***************************************************************************)
(* A model of the ararext serial bootloader for STM32F407xx: the CRC-32    *)
(* frame verifier, the frame parser, the address validator, the command    *)
(* handlers and the serve loop of src/src/main.rs.                         *)
(***************************************************************************)
EXTENDS Integers, Sequences, FiniteSets, TLC

(***************************************************************************)
(* Machine arithmetic.  A u8 is a natural below 2^8.  A u32 is the pair    *)
(* << high half-word, low half-word >> of naturals below 2^16, so that     *)
(* every 32-bit value and its wrap-around are represented exactly.         *)
(***************************************************************************)
Half == 65536

Byte == 0 .. 255

\* bitwise exclusive or of two naturals, bit by bit
RECURSIVE XorBits(_, _)
XorBits(a, b) ==
  IF a = 0 THEN b
  ELSE IF b = 0 THEN a
  ELSE (((a % 2) + (b % 2)) % 2) + 2 * XorBits(a \div 2, b \div 2)

\* the same on 4-bit digits, tabulated
XorNibble == [ a \in 0 .. 15 |-> [ b \in 0 .. 15 |-> XorBits(a, b) ] ]

\* a ^ b for a, b below 2^16, four bits at a time
Xor(a, b) ==
  XorNibble[a % 16][b % 16]
  + 16 * XorNibble[(a \div 16) % 16][(b \div 16) % 16]
  + 256 * XorNibble[(a \div 256) % 16][(b \div 256) % 16]
  + 4096 * XorNibble[a \div 4096][b \div 4096]

IsU32(v) == v[1] \in 0 .. Half - 1 /\ v[2] \in 0 .. Half - 1

XorU32(v, w) == << Xor(v[1], w[1]), Xor(v[2], w[2]) >>

\* v << 1 on 32 bits
Shl1(v) == << (2 * v[1] + (v[2] \div (Half \div 2))) % Half, (2 * v[2]) % Half >>

\* v << n on 32 bits
RECURSIVE Shl(_, _)
Shl(v, n) == IF n = 0 THEN v ELSE Shl(Shl1(v), n - 1)

\* bitwise and of two naturals, bit by bit
RECURSIVE AndBits(_, _)
AndBits(a, b) ==
  IF a = 0 \/ b = 0 THEN 0
  ELSE ((a % 2) * (b % 2)) + 2 * AndBits(a \div 2, b \div 2)

\* v & w, v | w and !v on 32 bits
AndU32(v, w) == << AndBits(v[1], w[1]), AndBits(v[2], w[2]) >>

OrU32(v, w) ==
  << v[1] + w[1] - AndBits(v[1], w[1]), v[2] + w[2] - AndBits(v[2], w[2]) >>

NotU32(v) == << Half - 1 - v[1], Half - 1 - v[2] >>

\* n as u32, for n below 2^16
U32(n) == << 0, n >>

\* v + n on 32 bits (wrapping), for 0 <= n < 2^30
AddU32(v, n) ==
  LET lo == v[2] + (n % Half)
      hi == v[1] + (n \div Half) + (lo \div Half)
  IN  << hi % Half, lo % Half >>

\* u32 comparisons
LeU32(v, w) == v[1] < w[1] \/ (v[1] = w[1] /\ v[2] <= w[2])

GeU32(v, w) == LeU32(w, v)

\* u32::from_le_bytes([b0, b1, b2, b3])
from_le_bytes(b0, b1, b2, b3) == << b2 + 256 * b3, b0 + 256 * b1 >>

\* u32::to_le_bytes, as a sequence of four bytes
to_le_bytes(w) == << w[2] % 256, w[2] \div 256, w[1] % 256, w[1] \div 256 >>

\* buffer[from .. to) of a 1-indexed sequence addressed with 0-based offsets
Slice(s, from, to) == SubSeq(s, from + 1, to)

(***************************************************************************)
(* Program constants (src/src/constants.rs, src/src/crc.rs).               *)
(***************************************************************************)
BL_VERSION == 16

BL_GET_VER == 81

BL_GET_HELP == 82

BL_GET_CID == 83

BL_GET_RDP_STATUS == 84

BL_GO_TO_ADDR == 85

BL_FLASH_ERASE == 86

BL_MEM_WRITE == 87

BL_EN_RW_PROTECT == 88

BL_MEM_READ == 89

BL_READ_SECTOR_P_STATUS == 90

BL_OTP_READ == 91

BL_DIS_R_W_PROTECT == 92

BL_ACK == 165

BL_NACK == 127

ADDR_VALID == 0

ADDR_INVALID == 1

SRAM1_BASE == << \H2000, \H0000 >>

SRAM1_SIZE == 112 * 1024

SRAM1_END == AddU32(SRAM1_BASE, SRAM1_SIZE)

SRAM2_BASE == << \H2001, \HC000 >>

SRAM2_SIZE == 16 * 1024

SRAM2_END == AddU32(SRAM2_BASE, SRAM2_SIZE)

FLASH_BASE == << \H0800, \H0000 >>

FLASH_SIZE == 512 * 1024

FLASH_END == AddU32(FLASH_BASE, FLASH_SIZE)

BKPSRAM_BASE == << \H4002, \H4000 >>

BKPSRAM_SIZE == 4 * 1024

BKPSRAM_END == AddU32(BKPSRAM_BASE, BKPSRAM_SIZE)

FLASH_SECTOR2_BASE_ADDRESS == << \H0800, \H8000 >>

BL_RX_LEN == 200

\* SUPPORTED_COMMANDS without its last entry
SUPPORTED_COMMANDS_short ==
  << BL_GET_VER, BL_GET_HELP, BL_GET_CID, BL_GET_RDP_STATUS, BL_GO_TO_ADDR,
     BL_FLASH_ERASE, BL_MEM_WRITE, BL_EN_RW_PROTECT, BL_MEM_READ,
     BL_READ_SECTOR_P_STATUS, BL_OTP_READ >>

SUPPORTED_COMMANDS ==
  << BL_GET_VER, BL_GET_HELP, BL_GET_CID, BL_GET_RDP_STATUS, BL_GO_TO_ADDR,
     BL_FLASH_ERASE, BL_MEM_WRITE, BL_EN_RW_PROTECT, BL_MEM_READ,
     BL_READ_SECTOR_P_STATUS, BL_OTP_READ, BL_DIS_R_W_PROTECT >>

CRC_INIT == << \HFFFF, \HFFFF >>

CRC_POLY == << \H04C1, \H1DB7 >>

(***************************************************************************)
(* src/src/crc.rs                                                          *)
(***************************************************************************)
\* one pass of the loop body of accumulate_word_crc:
\* if (crc & 0x8000_0000) != 0 { crc = (crc << 1) ^ CRC_POLY } else { crc <<= 1 }
crc_shift(crc) ==
  IF crc[1] >= Half \div 2 THEN XorU32(Shl1(crc), CRC_POLY) ELSE Shl1(crc)

RECURSIVE crc_shifts(_, _)
crc_shifts(crc, n) == IF n = 0 THEN crc ELSE crc_shifts(crc_shift(crc), n - 1)

\* the update of a CRC-32/MPEG-2 fed byte by byte: the byte enters at the top
\* of the accumulator and eight steps follow
accumulate_word_crc_byte(crc, data) == crc_shifts(XorU32(crc, << 256 * data, 0 >>), 8)

\* crc ^= data; for _ in 0..32 { ... }      (data is the byte as u32)
accumulate_word_crc(crc, data) == crc_shifts(XorU32(crc, << 0, data >>), 32)

RECURSIVE crc_fold(_, _, _)
\* the loop `for &byte in data` from its pass k on; crc_value is a u32
crc_fold(crc_value, data, k) ==
  CASE IsU32(crc_value) ->
    IF k > Len(data) THEN crc_value
    ELSE crc_fold(accumulate_word_crc(crc_value, data[k]), data, k + 1)

calculate_crc(data) == crc_fold(CRC_INIT, data, 1)

\* verify_frame_crc that only checks the frame is long enough
verify_frame_crc_any(frame) == Len(frame) >= 6

\* verify_frame_crc that leaves the length byte out of the CRC
verify_frame_crc_skip_length(frame) ==
  IF Len(frame) < 6 THEN FALSE
  ELSE LET data_len == Len(frame) - 4
           expected == from_le_bytes(frame[data_len + 1], frame[data_len + 2],
                                     frame[data_len + 3], frame[data_len + 4])
       IN  calculate_crc(Slice(frame, 1, data_len)) = expected

verify_frame_crc(frame) ==
  IF Len(frame) < 6 THEN FALSE
  ELSE LET data_len == Len(frame) - 4
           expected == from_le_bytes(frame[data_len + 1], frame[data_len + 2],
                                     frame[data_len + 3], frame[data_len + 4])
       IN  calculate_crc(Slice(frame, 0, data_len)) = expected

(***************************************************************************)
(* src/src/memory.rs                                                       *)
(***************************************************************************)
\* verify_address that forgets the backup SRAM
verify_address_no_bkpsram(address) ==
  IF \/ (GeU32(address, SRAM1_BASE) /\ LeU32(address, SRAM1_END))
     \/ (GeU32(address, SRAM2_BASE) /\ LeU32(address, SRAM2_END))
     \/ (GeU32(address, FLASH_BASE) /\ LeU32(address, FLASH_END))
  THEN ADDR_VALID
  ELSE ADDR_INVALID

verify_address(address) ==
  IF \/ (GeU32(address, SRAM1_BASE) /\ LeU32(address, SRAM1_END))
     \/ (GeU32(address, SRAM2_BASE) /\ LeU32(address, SRAM2_END))
     \/ (GeU32(address, FLASH_BASE) /\ LeU32(address, FLASH_END))
     \/ (GeU32(address, BKPSRAM_BASE) /\ LeU32(address, BKPSRAM_END))
  THEN ADDR_VALID
  ELSE ADDR_INVALID

\* the match of identify_memory_region: the first arm whose guard holds
identify_memory_region(address) ==
  IF GeU32(address, SRAM1_BASE) /\ LeU32(address, SRAM1_END) THEN "SRAM1"
  ELSE IF GeU32(address, SRAM2_BASE) /\ LeU32(address, SRAM2_END) THEN "SRAM2"
  ELSE IF GeU32(address, FLASH_BASE) /\ LeU32(address, FLASH_END) THEN "Flash"
  ELSE IF GeU32(address, BKPSRAM_BASE) /\ LeU32(address, BKPSRAM_END)
  THEN "BackupSram"
  ELSE "Unknown"

(***************************************************************************)
(* The address space as the program reads it.  The contents are not fixed  *)
(* by the program: m selects one of several contents, and every byte       *)
(* depends on its address so that the order of reads is observable.        *)
(***************************************************************************)
MemByte(m, a) == (a[2] * (m + 1) + a[1] + 17 * m) % 256

\* core::ptr::read_volatile(a as *const u32): four bytes, little-endian
MemWord(m, a) ==
  from_le_bytes(MemByte(m, a), MemByte(m, AddU32(a, 1)),
                MemByte(m, AddU32(a, 2)), MemByte(m, AddU32(a, 3)))

DBGMCU_IDCODE == << \HE004, \H2000 >>

OB_RDP_ADDR == << \H1FFF, \HC000 >>

OB_WRP_ADDR == << \H1FFF, \HC008 >>

\* (idcode & 0x0FFF) as u16
get_mcu_chip_id(m) == MemWord(m, DBGMCU_IDCODE)[2] % 4096

\* ((ob_value >> 8) & 0xFF) as u8
get_flash_rdp_level(m) == (MemWord(m, OB_RDP_ADDR)[2] \div 256) % 256

\* read_volatile(0x1FFFC008 as *const u16)
read_ob_rw_protection_status(m) == MemWord(m, OB_WRP_ADDR)[2]

(***************************************************************************)
(* src/src/flash.rs: execute_flash_erase.  The flash controller is seen    *)
(* through the calls made on it: clear_all_err_flags and erase(i).         *)
(* failing is the set of sectors whose erase returns an error.             *)
(***************************************************************************)
FlashOk(effects) == [ effects |-> effects, result |-> "Ok" ]

FlashErr(effects) == [ effects |-> effects, result |-> "Err" ]

\* the erase loop that goes on after a failure and reports it at the end
erase_loop_keep_going(first, count, failing) ==
  LET failed == { i \in 0 .. count - 1 : first + i \in failing }
      calls  == [ k \in 1 .. count |-> << "erase", first + k - 1 >> ]
  IN  IF failed = { } THEN FlashOk(calls) ELSE FlashErr(calls)

\* for i in 0..count { flash.erase(first + i)? }
erase_loop(first, count, failing) ==
  LET failed == { i \in 0 .. count - 1 : first + i \in failing }
      stop   == IF failed = { } THEN count
                ELSE 1 + CHOOSE i \in failed : \A j \in failed : i <= j
      calls  == [ k \in 1 .. stop |-> << "erase", first + k - 1 >> ]
  IN  IF failed = { } THEN FlashOk(calls) ELSE FlashErr(calls)

\* the call on the controller that precedes the erases
after_clear(r) ==
  [ effects |-> << << "clear_all_err_flags", 0 >> >> \o r.effects, result |-> r.result ]

\* execute_flash_erase that erases number_of_sectors sectors, not clamped to
\* the sectors that remain
execute_flash_erase_unclamped(sector_number, number_of_sectors, failing) ==
  IF number_of_sectors > 8 THEN FlashErr(<< >>)
  ELSE IF sector_number = 255 THEN after_clear(erase_loop(0, 8, failing))
  ELSE IF sector_number <= 7
  THEN after_clear(erase_loop(sector_number, number_of_sectors, failing))
  ELSE FlashErr(<< >>)

\* execute_flash_erase that looks at the sector number before the count
execute_flash_erase_mass_first(sector_number, number_of_sectors, failing) ==
  IF sector_number = 255 THEN after_clear(erase_loop(0, 8, failing))
  ELSE IF number_of_sectors > 8 THEN FlashErr(<< >>)
  ELSE IF sector_number <= 7
  THEN LET remaining_sectors == 8 - sector_number
           sectors_to_erase  == IF number_of_sectors > remaining_sectors
                                THEN remaining_sectors
                                ELSE number_of_sectors
       IN  after_clear(erase_loop(sector_number, sectors_to_erase, failing))
  ELSE FlashErr(<< >>)

execute_flash_erase(sector_number, number_of_sectors, failing) ==
  IF number_of_sectors > 8 THEN FlashErr(<< >>)
  ELSE IF sector_number = 255 THEN after_clear(erase_loop(0, 8, failing))
  ELSE IF sector_number <= 7
  THEN LET remaining_sectors == 8 - sector_number
           sectors_to_erase  == IF number_of_sectors > remaining_sectors
                                THEN remaining_sectors
                                ELSE number_of_sectors
       IN  after_clear(erase_loop(sector_number, sectors_to_erase, failing))
  ELSE FlashErr(<< >>)

\* for (offset, &byte) in data.iter().enumerate() {
\*   flash.program(address + offset, &[byte], false)? }
\* failing is the set of offsets whose program call returns an error
program_loop(address, data, failing) ==
  LET failed == { i \in 0 .. Len(data) - 1 : i \in failing }
      stop   == IF failed = { } THEN Len(data)
                ELSE 1 + CHOOSE i \in failed : \A j \in failed : i <= j
      calls  == [ k \in 1 .. stop |->
                    << "program", AddU32(address, k - 1), data[k] >> ]
  IN  IF failed = { } THEN FlashOk(calls) ELSE FlashErr(calls)

\* flash.rs: execute_mem_write
execute_mem_write(address, data, failing) ==
  after_clear(program_loop(address, data, failing))

\* what configure_flash_sector_rw_protection does before it polls: the effects
\* on the option control register, and whether it goes on to poll OPTBSY
Configured(effects, polls) == [ effects |-> effects, polls |-> polls ]

\* read_volatile(optcr_ptr) returning optcr_val, then write_volatile(new_val)
read_modify_write(optcr_val, new_val) ==
  Configured(<< << "read_optcr", optcr_val >>, << "optcr", new_val >> >>, TRUE)

\* configure_flash_sector_rw_protection whose mode 2 keeps the protection
\* bits that are set already
configure_flash_sector_rw_protection_keep(sector_details, protection_mode, disable, optcr_val) ==
  IF disable
  THEN read_modify_write(optcr_val,
         OrU32(OrU32(AndU32(optcr_val, NotU32(Shl(U32(1), 31))),
                     Shl(U32(255), 16)),
               Shl(U32(1), 1)))
  ELSE IF protection_mode = 1
  THEN read_modify_write(optcr_val,
         OrU32(AndU32(AndU32(optcr_val, NotU32(Shl(U32(1), 31))),
                      NotU32(Shl(U32(sector_details), 16))),
               Shl(U32(1), 1)))
  ELSE IF protection_mode = 2
  THEN read_modify_write(optcr_val,
         OrU32(OrU32(OrU32(optcr_val, Shl(U32(1), 31)),
                     Shl(U32(sector_details), 16)),
               Shl(U32(1), 1)))
  ELSE Configured(<< >>, FALSE)

\* flash.rs: configure_flash_sector_rw_protection, up to the polling loop
configure_flash_sector_rw_protection(sector_details, protection_mode, disable, optcr_val) ==
  IF disable
  THEN read_modify_write(optcr_val,
         OrU32(OrU32(AndU32(optcr_val, NotU32(Shl(U32(1), 31))),
                     Shl(U32(255), 16)),
               Shl(U32(1), 1)))
  ELSE IF protection_mode = 1
  THEN read_modify_write(optcr_val,
         OrU32(AndU32(AndU32(optcr_val, NotU32(Shl(U32(1), 31))),
                      NotU32(Shl(U32(sector_details), 16))),
               Shl(U32(1), 1)))
  ELSE IF protection_mode = 2
  THEN read_modify_write(optcr_val,
         OrU32(OrU32(AndU32(OrU32(optcr_val, Shl(U32(1), 31)),
                            NotU32(Shl(U32(255), 16))),
                     Shl(U32(sector_details), 16)),
               Shl(U32(1), 1)))
  ELSE Configured(<< >>, FALSE)

(***************************************************************************)
(* src/src/uart.rs: CommandPacket::parse.  The result is None, a packet,   *)
(* or a panic (an arithmetic overflow in a checked build, the out-of-range *)
(* index or slice it leads to in an unchecked one, or a slice longer than  *)
(* the 197-byte payload array).                                            *)
(***************************************************************************)
PAYLOAD_CAP == BL_RX_LEN - 3

\* usize::saturating_sub
saturating_sub(a, b) == IF a >= b THEN a - b ELSE 0

ParseResult(kind, length, command, payload, crc) ==
  [ kind |-> kind, length |-> length, command |-> command,
    payload |-> payload, payload_len |-> Len(payload), crc |-> crc ]

NoPacket == ParseResult("None", 0, 0, << >>, << 0, 0 >>)

ParsePanic == ParseResult("panic", 0, 0, << >>, << 0, 0 >>)

\* parse without the test of the slice length against the length byte: the
\* CRC bytes are then indexed past the end of the slice
parse_unguarded(buffer) ==
  IF Len(buffer) < 4 THEN NoPacket
  ELSE LET length == buffer[1]
           payload_len == IF length >= 1 THEN length - 1 ELSE 0
       IN  IF Len(buffer) < 2 + length \/ 2 + length < 4 THEN ParsePanic
           ELSE IF payload_len > 0 /\ (payload_len < 4 \/ payload_len - 4 > PAYLOAD_CAP)
           THEN ParsePanic
           ELSE ParseResult("Some", length, buffer[2],
                            Slice(buffer, 2, 2 + payload_len - 4),
                            from_le_bytes(buffer[length - 1], buffer[length],
                                          buffer[length + 1], buffer[length + 2]))

\* parse that reports the payload length with the CRC bytes still counted
parse_keep_crc_len(buffer) ==
  IF Len(buffer) < 4 THEN NoPacket
  ELSE LET length == buffer[1]
           payload_len == saturating_sub(length, 1)
       IN  IF Len(buffer) < 2 + length THEN NoPacket
           ELSE IF 2 + length < 4 THEN ParsePanic
           ELSE IF payload_len > 0 /\ (payload_len < 4 \/ payload_len - 4 > PAYLOAD_CAP)
           THEN ParsePanic
           ELSE [ ParseResult("Some", length, buffer[2],
                              Slice(buffer, 2, 2 + payload_len - 4),
                              from_le_bytes(buffer[length - 1], buffer[length],
                                            buffer[length + 1], buffer[length + 2]))
                  EXCEPT !.payload_len = payload_len ]

parse(buffer) ==
  IF Len(buffer) < 4 THEN NoPacket
  ELSE LET length  == buffer[1]
           command == buffer[2]
       IN  IF Len(buffer) < 2 + length THEN NoPacket
           ELSE IF 2 + length < 4 THEN ParsePanic     \* crc_offset underflows
           ELSE LET crc_offset  == 2 + length - 4
                    crc         == from_le_bytes(buffer[crc_offset + 1],
                                                 buffer[crc_offset + 2],
                                                 buffer[crc_offset + 3],
                                                 buffer[crc_offset + 4])
                    payload_len == saturating_sub(length, 1)
                IN  IF payload_len > 0 /\ payload_len < 4
                    THEN ParsePanic                   \* payload_len - 4 underflows
                    ELSE IF payload_len > 0 /\ payload_len - 4 > PAYLOAD_CAP
                    THEN ParsePanic                   \* payload[..n], n > 197
                    ELSE [ ParseResult("Some", length, command,
                                       IF payload_len > 0
                                       THEN Slice(buffer, 2, 2 + payload_len - 4)
                                       ELSE << >>,
                                       crc)
                           EXCEPT !.payload_len = saturating_sub(payload_len, 4) ]

(***************************************************************************)
(* Effects of the running program, in program order.  A handler's value is *)
(* the sequence of effects it performs followed by how it ends.            *)
(***************************************************************************)
Tx(b) == << "tx", b >>

TxAll(bytes) == [ k \in 1 .. Len(bytes) |-> Tx(bytes[k]) ]

\* src/src/uart.rs: UartComm::send_ack, UartComm::send_nack
send_ack(command_code, follow_len) ==
  << Tx(BL_ACK), Tx(command_code), Tx(follow_len) >>

send_nack == << Tx(BL_NACK) >>

Returns(effects) == [ effects |-> effects, ends |-> "return" ]

Diverges(effects) == [ effects |-> effects, ends |-> "jump" ]

\* src/src/handlers.rs: jump_to_address
jump_to_address(m, address) ==
  << << "read32", address >>,
     << "msp", MemWord(m, address) >>,
     << "read32", AddU32(address, 4) >>,
     << "branch", MemWord(m, AddU32(address, 4)) >> >>

(***************************************************************************)
(* src/src/handlers.rs                                                     *)
(***************************************************************************)
handle_getver_cmd(packet) == Returns(send_ack(BL_GET_VER, 1) \o << Tx(BL_VERSION) >>)

handle_gethelp_cmd ==
  Returns(send_ack(BL_GET_HELP, Len(SUPPORTED_COMMANDS) % 256)
          \o TxAll(SUPPORTED_COMMANDS))

\* handle_getcid_cmd that announces two bytes and sends the low one only
handle_getcid_cmd_low_byte(m) ==
  LET chip_id == get_mcu_chip_id(m)
  IN  Returns(<< << "read32", DBGMCU_IDCODE >> >> \o send_ack(BL_GET_CID, 2)
              \o << Tx(chip_id % 256) >>)

handle_getcid_cmd(m) ==
  LET chip_id == get_mcu_chip_id(m)
  IN  Returns(<< << "read32", DBGMCU_IDCODE >> >> \o send_ack(BL_GET_CID, 2)
              \o << Tx(chip_id % 256), Tx(chip_id \div 256) >>)

handle_getrdp_cmd(m) ==
  Returns(<< << "read32", OB_RDP_ADDR >> >> \o send_ack(BL_GET_RDP_STATUS, 1)
          \o << Tx(get_flash_rdp_level(m)) >>)

\* handle_go_cmd that jumps before it acknowledges
handle_go_cmd_jump_first(m, packet) ==
  IF Len(packet) < 4 THEN Returns(send_nack)
  ELSE LET address == from_le_bytes(packet[1], packet[2], packet[3], packet[4])
       IN  IF verify_address(address) = ADDR_VALID
           THEN Diverges(jump_to_address(m, address) \o send_ack(BL_GO_TO_ADDR, 0))
           ELSE Returns(send_nack)

\* handle_go_cmd that jumps without validating the address
handle_go_cmd_unchecked(m, packet) ==
  IF Len(packet) < 4 THEN Returns(send_nack)
  ELSE LET address == from_le_bytes(packet[1], packet[2], packet[3], packet[4])
       IN  Diverges(send_ack(BL_GO_TO_ADDR, 0) \o << << "delay", 1000 >> >>
                    \o jump_to_address(m, address))

handle_go_cmd(m, packet) ==
  IF Len(packet) < 4 THEN Returns(send_nack)
  ELSE LET address == from_le_bytes(packet[1], packet[2], packet[3], packet[4])
       IN  IF verify_address(address) = ADDR_VALID
           THEN Diverges(send_ack(BL_GO_TO_ADDR, 0) \o << << "delay", 1000 >> >>
                         \o jump_to_address(m, address))
           ELSE Returns(send_nack)

\* handle_flash_erase_cmd wired to the flash controller
handle_flash_erase_cmd_wired(packet) ==
  IF Len(packet) < 2 THEN Returns(send_nack)
  ELSE LET r == execute_flash_erase(packet[1], packet[2], { })
       IN  Returns(r.effects \o send_ack(BL_FLASH_ERASE, 1)
                   \o << Tx(IF r.result = "Ok" THEN 0 ELSE 1) >>)

handle_flash_erase_cmd(packet) ==
  IF Len(packet) < 2 THEN Returns(send_nack) ELSE Returns(send_nack)

handle_mem_write_cmd(packet) ==
  IF Len(packet) < 6 THEN Returns(send_nack)
  ELSE LET address   == from_le_bytes(packet[1], packet[2], packet[3], packet[4])
           write_len == packet[5]
       IN  IF 5 + write_len > Len(packet) THEN Returns(send_nack)
           ELSE IF verify_address(address) = ADDR_VALID THEN Returns(send_nack)
           ELSE Returns(send_nack)

\* `for i in 0..read_len`: pass i reads the byte at address + i and sends it
mem_read_loop(m, address, read_len) ==
  [ k \in 1 .. 2 * read_len |->
      IF k % 2 = 1
      THEN << "read8", AddU32(address, (k - 1) \div 2) >>
      ELSE Tx(MemByte(m, AddU32(address, (k - 1) \div 2))) ]

handle_mem_read_cmd(m, packet) ==
  IF Len(packet) < 6 THEN Returns(send_nack)
  ELSE LET address  == from_le_bytes(packet[1], packet[2], packet[3], packet[4])
           read_len == packet[5]
       IN  IF verify_address(address) = ADDR_VALID
           THEN Returns(send_ack(BL_MEM_READ, read_len)
                        \o mem_read_loop(m, address, read_len))
           ELSE Returns(send_nack)

handle_en_rw_protect_cmd(packet) ==
  IF Len(packet) < 2 THEN Returns(send_nack) ELSE Returns(send_nack)

handle_dis_rw_protect_cmd(packet) == Returns(send_nack)

handle_read_sector_protection_cmd(m) ==
  LET protection_status == read_ob_rw_protection_status(m)
  IN  Returns(<< << "read16", OB_WRP_ADDR >> >> \o send_ack(BL_READ_SECTOR_P_STATUS, 2)
              \o << Tx(protection_status % 256), Tx(protection_status \div 256) >>)

handle_read_otp_cmd == Returns(send_nack)

\* src/src/main.rs: the match on packet.command; the arm `_` is marked in the
\* effects as "unknown"
dispatch(m, command, payload) ==
  CASE command = BL_GET_VER -> handle_getver_cmd(payload)
    [] command = BL_GET_HELP -> handle_gethelp_cmd
    [] command = BL_GET_CID -> handle_getcid_cmd(m)
    [] command = BL_GET_RDP_STATUS -> handle_getrdp_cmd(m)
    [] command = BL_GO_TO_ADDR -> handle_go_cmd(m, payload)
    [] command = BL_FLASH_ERASE -> handle_flash_erase_cmd(payload)
    [] command = BL_MEM_WRITE -> handle_mem_write_cmd(payload)
    [] command = BL_EN_RW_PROTECT -> handle_en_rw_protect_cmd(payload)
    [] command = BL_MEM_READ -> handle_mem_read_cmd(m, payload)
    [] command = BL_READ_SECTOR_P_STATUS -> handle_read_sector_protection_cmd(m)
    [] command = BL_OTP_READ -> handle_read_otp_cmd
    [] command = BL_DIS_R_W_PROTECT -> handle_dis_rw_protect_cmd(payload)
    [] OTHER -> Returns(<< << "unknown", command >> >> \o send_nack)

(***************************************************************************)
(* Bounds of the model.                                                    *)
(***************************************************************************)
\* frames the host sends in one run of the serve loop
MaxFrames == 2

\* reads of the option control register that find OPTBSY set, in one call
MaxPolls == 2

\* UART receive errors (overrun, noise, framing, parity) in one run
MaxReadErrors == 1

\* memory contents 0 .. MaxMem
MaxMem == 1

\* payload bytes of the frames built for the CRC verifier
MaxPayload == 2

\* addresses probed within this distance of every region bound
ProbeDelta == 2

\* the longest byte sequence given to the parser, besides the long ones
MaxParseLen == 9

(***************************************************************************)
(* What the host can put on the wire.                                      *)
(***************************************************************************)
\* Length | Command | payload | CRC-32 (little-endian) over the bytes before
build(command, payload) ==
  LET body == << Len(payload) + 5, command >> \o payload
  IN  body \o to_le_bytes(calculate_crc(body))

\* f with its byte at 1-based position k replaced by v
Replace(f, k, v) == [ f EXCEPT ![k] = v ]

\* f with the lowest bit of its last byte flipped
Corrupt(f) == Replace(f, Len(f), Xor(f[Len(f)], 1))

AddrBytes(a) == to_le_bytes(a)

ADDR_ZERO == << 0, 0 >>

ADDR_MAX == << \HFFFF, \HFFFF >>

ADDR_SRAM1_APP == << \H2000, \H1000 >>

\* the frames of the host tool: version query, unknown command, the three
\* jump requests, a memory read
GoodFrames ==
  { build(BL_GET_VER, << >>),
    build(0, << >>),
    build(BL_GO_TO_ADDR, AddrBytes(ADDR_SRAM1_APP)),
    build(BL_GO_TO_ADDR, AddrBytes(ADDR_ZERO)),
    build(BL_GO_TO_ADDR, AddrBytes(ADDR_MAX)),
    build(BL_MEM_READ, AddrBytes(FLASH_BASE) \o << 4 >>) }

\* frames damaged on the wire
BadFrames ==
  { Corrupt(build(BL_GET_VER, << >>)),
    Corrupt(build(BL_GO_TO_ADDR, AddrBytes(ADDR_SRAM1_APP))) }

\* a length byte that is out of range, alone on the wire
BadLengths == { << 4 >>, << BL_RX_LEN >> }

\* the largest length byte that is in range, alone on the wire: the bytes of
\* the frames after it are stored as its body
EdgeLengths == { << BL_RX_LEN - 1 >> }

HostFrames == GoodFrames \cup BadFrames \cup BadLengths \cup EdgeLengths

VARIABLES
  pc,       \* where the program is: Boot, AwaitLength, AwaitBody, App, ...
  rx,       \* bytes on the wire that the UART has not delivered yet
  buffer,   \* buffer[0 .. i-1]: the bytes of the frame stored so far
  frame_len,\* length + 1 of the frame being assembled
  log,      \* effects of the current loop iteration, in program order
  msp,      \* the Main Stack Pointer, << >> while it is the bootloader's own
  mem,      \* which memory contents the device has
  sent,     \* frames the host has sent
  errs,     \* receive errors so far
  call,     \* the function a unit run has called
  arg,      \* its input
  ret       \* its result

vars == << pc, rx, buffer, frame_len, log, msp, mem, sent, errs, call, arg, ret >>

unit_vars == << call, arg, ret >>

\* the bytes transmitted by a sequence of effects, in order
TxOf(effects) ==
  LET sel == SelectSeq(effects, LAMBDA e : e[1] = "tx")
  IN  [ k \in 1 .. Len(sel) |-> sel[k][2] ]

\* the kinds of the effects, in order
KindsOf(effects) == [ k \in 1 .. Len(effects) |-> effects[k][1] ]

\* the MSP after a sequence of effects
MspAfter(old, effects) ==
  LET sel == SelectSeq(effects, LAMBDA e : e[1] = "msp")
  IN  IF sel = << >> THEN old ELSE sel[Len(sel)][2]

\* the input and the result of a unit run, before any function is called
NoArg ==
  [ frame |-> << >>, built |-> << >>, pos |-> 0, address |-> << 0, 0 >>,
    command |-> 0, payload |-> << >>,
    sector_number |-> 0, number_of_sectors |-> 0, failing |-> { },
    optcr |-> << 0, 0 >>, sector_details |-> 0, protection_mode |-> 0,
    disable |-> FALSE ]

NoRet ==
  [ ok |-> FALSE, packet |-> NoPacket, verdict |-> ADDR_INVALID, region |-> "",
    crc |-> << 0, 0 >>, result |-> "" ]

(***************************************************************************)
(* src/src/main.rs: main and bootloader_loop                               *)
(***************************************************************************)
Init ==
  /\ pc = "Boot"
  /\ rx = << >>
  /\ buffer = << >>
  /\ frame_len = 0
  /\ log = << >>
  /\ msp = << >>
  /\ mem \in 0 .. MaxMem
  /\ sent = 0
  /\ errs = 0
  /\ call = "none"
  /\ arg = NoArg
  /\ ret = NoRet

\* jump_to_user_app with the base of the flash as application base
jump_to_user_app_flash_base(m) == jump_to_address(m, FLASH_BASE)

\* main.rs: jump_to_user_app
jump_to_user_app(m) == jump_to_address(m, FLASH_SECTOR2_BASE_ADDRESS)

\* main: button.is_low() chooses the serve loop or the user application
BootSelect ==
  /\ pc = "Boot"
  /\ \E is_low \in BOOLEAN :
       IF is_low
       THEN /\ pc' = "AwaitLength"
            /\ UNCHANGED << log, msp >>
       ELSE LET effects == jump_to_user_app(mem)
            IN  /\ pc' = "App"
                /\ log' = effects
                /\ msp' = MspAfter(msp, effects)
  /\ UNCHANGED << rx, buffer, frame_len, mem, sent, errs, unit_vars >>

\* the host puts one more frame on the wire
HostSend ==
  /\ pc \in { "AwaitLength", "AwaitBody" }
  /\ rx = << >>
  /\ sent < MaxFrames
  /\ \E f \in HostFrames : rx' = f
  /\ sent' = sent + 1
  /\ UNCHANGED << pc, buffer, frame_len, log, msp, mem, errs, unit_vars >>

\* the length check that accepts every length byte of five or more
length_rejected_low_only(length) == length < 5

\* bootloader_loop: frame_len > BL_RX_LEN || length < 5
length_rejected(length) == length + 1 > BL_RX_LEN \/ length < 5

\* the first rx.read() of an iteration returns Ok(length)
ReadLength ==
  /\ pc = "AwaitLength"
  /\ rx # << >>
  /\ LET length == Head(rx)
     IN  /\ rx' = Tail(rx)
         /\ frame_len' = length + 1
         /\ IF length_rejected(length)
            THEN /\ log' = send_nack
                 /\ buffer' = << >>
                 /\ pc' = "AwaitLength"
            ELSE /\ log' = << >>
                 /\ buffer' = << length >>
                 /\ pc' = "AwaitBody"
  /\ UNCHANGED << msp, mem, sent, errs, unit_vars >>

\* rx.read() returns Err: the byte is lost, NACK is sent and the loop restarts
ReadError ==
  /\ pc \in { "AwaitLength", "AwaitBody" }
  /\ rx # << >>
  /\ errs < MaxReadErrors
  /\ rx' = Tail(rx)
  /\ errs' = errs + 1
  /\ log' = (IF pc = "AwaitLength" THEN << >> ELSE log) \o send_nack
  /\ buffer' = (IF pc = "AwaitLength" THEN << >> ELSE buffer)
  /\ frame_len' = (IF pc = "AwaitLength" THEN 0 ELSE frame_len)
  /\ pc' = "AwaitLength"
  /\ UNCHANGED << msp, mem, sent, unit_vars >>

\* everything the loop does with an assembled frame
process(m, frame) ==
  IF ~verify_frame_crc(frame)
  THEN Returns(<< << "verify_frame_crc", FALSE >> >> \o send_nack)
  ELSE LET packet == parse(frame)
           pre    == << << "verify_frame_crc", TRUE >>, << "parse", packet.kind >> >>
       IN  IF packet.kind = "Some"
           THEN LET h == dispatch(m, packet.command, packet.payload)
                IN  [ effects |-> pre \o << << "dispatch", packet.command >> >>
                                      \o h.effects,
                      ends |-> h.ends ]
           ELSE IF packet.kind = "panic"
           THEN [ effects |-> pre, ends |-> "panic" ]
           ELSE Returns(pre \o send_nack)

\* where the program is after something that ends in `ends`
PcAfter(ends) ==
  CASE ends = "return" -> "AwaitLength"
    [] ends = "jump" -> "App"
    [] ends = "panic" -> "Halt"

\* the state after the effects of r
Finish(r) ==
  /\ log' = log \o r.effects
  /\ msp' = MspAfter(msp, r.effects)
  /\ pc' = PcAfter(r.ends)

\* a body byte is read into buffer[i]; the last one completes the frame, which
\* is then verified, parsed and dispatched
ReadBody ==
  /\ pc = "AwaitBody"
  /\ rx # << >>
  /\ rx' = Tail(rx)
  /\ buffer' = Append(buffer, Head(rx))
  /\ IF Len(buffer) + 1 < frame_len
     THEN UNCHANGED << pc, log, msp >>
     ELSE Finish(process(mem, Slice(buffer', 0, frame_len)))
  /\ UNCHANGED << frame_len, mem, sent, errs, unit_vars >>

Next == BootSelect \/ HostSend \/ ReadLength \/ ReadError \/ ReadBody

Spec == Init /\ [][Next]_vars

\* a byte is waiting in the UART while the loop blocks in rx.read()
ReadPending == pc \in { "AwaitLength", "AwaitBody" } /\ rx # << >>

(***************************************************************************)
(* Unit runs: one function of the program applied to one input, the way    *)
(* the parser, the CRC verifier, the validator and the dispatcher are      *)
(* driven in isolation.                                                    *)
(***************************************************************************)
\* v - n on 32 bits (wrapping), for 0 <= n < 2^16
SubU32(v, n) ==
  IF v[2] >= n THEN << v[1], v[2] - n >>
  ELSE << (v[1] + Half - 1) % Half, v[2] + Half - n >>

RegionBounds ==
  { SRAM1_BASE, SRAM1_END, SRAM2_BASE, SRAM2_END,
    FLASH_BASE, FLASH_END, BKPSRAM_BASE, BKPSRAM_END }

ProbeAddrs ==
  { AddU32(SubU32(b, ProbeDelta), d) : b \in RegionBounds, d \in 0 .. 2 * ProbeDelta }
  \cup { AddU32(ADDR_ZERO, d) : d \in 0 .. ProbeDelta }
  \cup { SubU32(ADDR_MAX, d) : d \in 0 .. ProbeDelta }
  \cup { ADDR_SRAM1_APP }

ReadLens == { 0, 1, 4, 255 }

UnitPayloads ==
  { << >>, << 0, 16, 0 >>, << 6, 5 >> }
  \cup { AddrBytes(a) : a \in ProbeAddrs }
  \cup { AddrBytes(a) \o << n >> : a \in ProbeAddrs, n \in ReadLens }
  \cup { AddrBytes(a) \o << n, 0 >> : a \in ProbeAddrs, n \in ReadLens }

UnitCommands ==
  { SUPPORTED_COMMANDS[k] : k \in 1 .. Len(SUPPORTED_COMMANDS) }
  \cup { 0, BL_GET_VER - 1, BL_DIS_R_W_PROTECT, BL_DIS_R_W_PROTECT + 1, 255 }

\* byte sequences for the parser: n bytes, the first one l
ParseInput(n, l) == [ k \in 1 .. n |-> IF k = 1 THEN l ELSE (37 * k + l) % 256 ]

ParseLens == 0 .. MaxParseLen \cup { 200, 201, 204, 205, 206, 256, 257 }

ParseFirstBytes == 0 .. MaxParseLen \cup { 198, 199, 200, 202, 203, 204, 255 }

ParseInputs == { ParseInput(n, l) : n \in ParseLens, l \in ParseFirstBytes }

\* frames built for the CRC verifier
RECURSIVE SeqsOver(_, _)
SeqsOver(S, n) ==
  IF n = 0 THEN { << >> }
  ELSE SeqsOver(S, n - 1)
       \cup { Append(q, x) : q \in { r \in SeqsOver(S, n - 1) : Len(r) = n - 1 }, x \in S }

CrcPayloads == SeqsOver({ 0, 255 }, MaxPayload)

CrcBuilt == { [ command |-> c, payload |-> q, frame |-> build(c, q) ] :
              c \in { BL_GET_VER, BL_MEM_WRITE }, q \in CrcPayloads }

\* the values the byte at position k of a built frame is replaced by: every
\* other value when the payload is empty, else every single-bit flip and the
\* extremes
Replacements(built, k) ==
  LET b == built.frame[k]
  IN  IF built.payload = << >> THEN Byte \ { b }
      ELSE ({ Xor(b, 1), Xor(b, 2), Xor(b, 4), Xor(b, 8), Xor(b, 16), Xor(b, 32),
              Xor(b, 64), Xor(b, 128) } \cup { 0, 1, 127, 128, 254, 255 }) \ { b }

\* frames too short to hold a command and a CRC
ShortFrames ==
  { << >>, << 255, 255, 255, 255 >>, << 0 >> \o to_le_bytes(calculate_crc(<< 0 >>)) }
  \cup { Slice(b.frame, 0, n) : b \in CrcBuilt, n \in 1 .. 5 }

\* byte sequences for calculate_crc: the empty one, every single byte, and
\* the data part of the built frames
CrcInputs ==
  { << >> } \cup { << b >> : b \in Byte }
  \cup { Slice(b.frame, 0, Len(b.frame) - 4) : b \in CrcBuilt }

\* inputs of execute_flash_erase: every sector, the first numbers that are
\* none, and the two largest bytes; every count up to one past the limit
EraseSectors == 0 .. 7 \cup { 8, 9, 254, 255 }

EraseCounts == 0 .. 9 \cup { 255 }

EraseFailures == { { } } \cup { { i } : i \in 0 .. 7 }

\* inputs of execute_mem_write: a base inside the flash and the last byte of
\* the flash, up to MaxPayload + 1 bytes of data, any set of failing offsets
FLASH_LAST == << \H0807, \HFFFF >>

WriteBases == { FLASH_SECTOR2_BASE_ADDRESS, FLASH_LAST }

WriteData == SeqsOver({ 90, 165 }, MaxPayload + 1)

WriteFailures == SUBSET (0 .. MaxPayload)

\* inputs of configure_flash_sector_rw_protection: register values with the
\* bits 31, 30..24, 23..16, 15..2, 1 and 0 all set, all clear and mixed;
\* sector bitmaps; the two modes and the numbers next to them
OptcrValues ==
  { << hi, lo >> : hi \in { 0, \HFFFF, \H80A5, \H7F5A, \H0100 },
                   lo \in { 0, \HFFFF, \HAAED, 2 } }

SectorDetails == { 0, 1, \H0F, \HA5, \H80, \HFF }

ProtectionModes == 0 .. 3

UnitInit ==
  /\ pc = "Unit"
  /\ rx = << >>
  /\ buffer = << >>
  /\ frame_len = 0
  /\ log = << >>
  /\ msp = << >>
  /\ mem \in 0 .. MaxMem
  /\ sent = 0
  /\ errs = 0
  /\ call = "none"
  /\ arg = NoArg
  /\ ret = NoRet

loop_vars == << rx, buffer, frame_len, mem, sent, errs >>

\* crc::verify_frame_crc on a built frame, whole or with one byte replaced
UnitVerifyBuilt ==
  /\ pc = "Unit"
  /\ \E b \in CrcBuilt : \E k \in 0 .. Len(b.frame) :
       \E v \in (IF k = 0 THEN { 0 } ELSE Replacements(b, k)) :
         LET frame == IF k = 0 THEN b.frame ELSE Replace(b.frame, k, v)
         IN  /\ arg' = [ NoArg EXCEPT !.built = b.frame, !.pos = k, !.frame = frame ]
             /\ ret' = [ NoRet EXCEPT !.ok = verify_frame_crc(frame) ]
  /\ call' = "verify_frame_crc"
  /\ pc' = "UnitDone"
  /\ UNCHANGED << loop_vars, log, msp >>

\* crc::verify_frame_crc on a frame shorter than six bytes
UnitVerifyShort ==
  /\ pc = "Unit"
  /\ \E f \in ShortFrames :
       /\ arg' = [ NoArg EXCEPT !.frame = f ]
       /\ ret' = [ NoRet EXCEPT !.ok = verify_frame_crc(f) ]
  /\ call' = "verify_frame_crc"
  /\ pc' = "UnitDone"
  /\ UNCHANGED << loop_vars, log, msp >>

\* CommandPacket::parse on a byte sequence
UnitParse ==
  /\ pc = "Unit"
  /\ \E f \in ParseInputs :
       /\ arg' = [ NoArg EXCEPT !.frame = f ]
       /\ ret' = [ NoRet EXCEPT !.packet = parse(f) ]
  /\ call' = "parse"
  /\ pc' = "UnitDone"
  /\ UNCHANGED << loop_vars, log, msp >>

\* memory::verify_address and memory::identify_memory_region on an address
UnitValidate ==
  /\ pc = "Unit"
  /\ \E a \in ProbeAddrs :
       /\ arg' = [ NoArg EXCEPT !.address = a ]
       /\ ret' = [ NoRet EXCEPT !.verdict = verify_address(a),
                                !.region = identify_memory_region(a) ]
  /\ call' = "validate"
  /\ pc' = "UnitDone"
  /\ UNCHANGED << loop_vars, log, msp >>

\* the state after a handler called on its own has acted
UnitFinish(r) ==
  /\ log' = r.effects
  /\ msp' = MspAfter(msp, r.effects)
  /\ pc' = IF r.ends = "return" THEN "UnitDone" ELSE PcAfter(r.ends)

\* the dispatch of a parsed packet: the handler of its command on its payload
UnitDispatch ==
  /\ pc = "Unit"
  /\ \E c \in UnitCommands, q \in UnitPayloads :
       /\ arg' = [ NoArg EXCEPT !.command = c, !.payload = q ]
       /\ UnitFinish(dispatch(mem, c, q))
  /\ call' = "dispatch"
  /\ ret' = NoRet
  /\ UNCHANGED loop_vars

\* crc::calculate_crc on a byte sequence
UnitCrc ==
  /\ pc = "Unit"
  /\ \E data \in CrcInputs :
       /\ arg' = [ NoArg EXCEPT !.frame = data ]
       /\ ret' = [ NoRet EXCEPT !.crc = calculate_crc(data) ]
  /\ call' = "calculate_crc"
  /\ pc' = "UnitDone"
  /\ UNCHANGED << loop_vars, log, msp >>

\* flash::execute_flash_erase on a sector number and a count, with at most one
\* sector whose erase fails
UnitErase ==
  /\ pc = "Unit"
  /\ \E s \in EraseSectors, n \in EraseCounts, failing \in EraseFailures :
       LET r == execute_flash_erase(s, n, failing)
       IN  /\ arg' = [ NoArg EXCEPT !.sector_number = s, !.number_of_sectors = n,
                                    !.failing = failing ]
           /\ ret' = [ NoRet EXCEPT !.result = r.result ]
           /\ log' = r.effects
  /\ call' = "execute_flash_erase"
  /\ pc' = "UnitDone"
  /\ UNCHANGED << loop_vars, msp >>

\* flash::execute_mem_write on a base address and data, with a set of offsets
\* whose programming fails
UnitMemWrite ==
  /\ pc = "Unit"
  /\ \E a \in WriteBases, data \in WriteData, failing \in WriteFailures :
       LET r == execute_mem_write(a, data, failing)
       IN  /\ arg' = [ NoArg EXCEPT !.address = a, !.payload = data,
                                    !.failing = failing ]
           /\ ret' = [ NoRet EXCEPT !.result = r.result ]
           /\ log' = r.effects
  /\ call' = "execute_mem_write"
  /\ pc' = "UnitDone"
  /\ UNCHANGED << loop_vars, msp >>

\* flash::configure_flash_sector_rw_protection up to its polling loop
UnitProtect ==
  /\ pc = "Unit"
  /\ \E v \in OptcrValues, sd \in SectorDetails, mode \in ProtectionModes,
        disable \in BOOLEAN :
       LET r == configure_flash_sector_rw_protection(sd, mode, disable, v)
       IN  /\ arg' = [ NoArg EXCEPT !.optcr = v, !.sector_details = sd,
                                    !.protection_mode = mode, !.disable = disable ]
           /\ log' = r.effects
           /\ pc' = IF r.polls THEN "OptBusy" ELSE "UnitDone"
           /\ ret' = IF r.polls THEN NoRet ELSE [ NoRet EXCEPT !.result = "Ok" ]
  /\ call' = "configure_flash_sector_rw_protection"
  /\ UNCHANGED << loop_vars, msp >>

\* the busy reads so far
Polls(effects) == Len(SelectSeq(effects, LAMBDA e : e = << "poll", 1 >>))

\* while (read_volatile(optcr_ptr) & 1) != 0 {}: one read; the function
\* returns Ok(()) when it finds bit 0 clear
OptPoll ==
  /\ pc = "OptBusy"
  /\ \E busy \in { 0, 1 } :
       /\ busy = 1 => Polls(log) < MaxPolls
       /\ log' = Append(log, << "poll", busy >>)
       /\ pc' = IF busy = 1 THEN "OptBusy" ELSE "UnitDone"
       /\ ret' = IF busy = 1 THEN ret ELSE [ ret EXCEPT !.result = "Ok" ]
  /\ UNCHANGED << loop_vars, msp, call, arg >>

UnitNext ==
  \/ UnitVerifyBuilt
  \/ UnitVerifyShort
  \/ UnitParse
  \/ UnitValidate
  \/ UnitDispatch
  \/ UnitCrc
  \/ UnitErase
  \/ UnitMemWrite
  \/ UnitProtect
  \/ OptPoll

UnitSpec == UnitInit /\ [][UnitNext]_vars

(***************************************************************************)
(* Definitions the properties are stated with.                             *)
(***************************************************************************)
\* the loop iteration has assembled the frame in buffer and is done with it
Processed == pc # "AwaitBody" /\ frame_len > 0 /\ Len(buffer) = frame_len

\* the last four bytes of f are the little-endian CRC-32 of the bytes before
CrcMatches(f) ==
  Slice(f, Len(f) - 4, Len(f)) = to_le_bytes(calculate_crc(Slice(f, 0, Len(f) - 4)))

GetVerFrame == build(BL_GET_VER, << >>)

\* the four regions, each with its first address and the last one tested
Regions ==
  { << SRAM1_BASE, SRAM1_END >>, << SRAM2_BASE, SRAM2_END >>,
    << FLASH_BASE, FLASH_END >>, << BKPSRAM_BASE, BKPSRAM_END >> }

Contains(region, a) == GeU32(a, region[1]) /\ LeU32(a, region[2])

InSomeRegion(a) == \E region \in Regions : Contains(region, a)

\* the address a request payload of at least four bytes starts with
PayloadAddr(q) == from_le_bytes(q[1], q[2], q[3], q[4])

\* a unit run has dispatched command c with a payload of at least n bytes
Dispatched(c, n) ==
  call = "dispatch" /\ arg.command = c /\ Len(arg.payload) >= n

\* the memory bytes at a, a+1, ..., a+n-1
MemBytes(m, a, n) == [ k \in 1 .. n |-> MemByte(m, AddU32(a, k - 1)) ]

(***************************************************************************)
(* C1.  A frame with length byte 5, command GET_VER and the CRC-32 of the  *)
(* two bytes before it, received by the serve loop, is answered with       *)
(* exactly the bytes A5 51 01 10.                                          *)
(***************************************************************************)
C1_GetVerReply ==
  (Processed /\ buffer = GetVerFrame) => TxOf(log) = << BL_ACK, BL_GET_VER, 1, BL_VERSION >>

C1_Witness == Processed /\ buffer = GetVerFrame /\ TxOf(log) = << BL_NACK >>

(***************************************************************************)
(* C2.  handle_go_cmd on a payload of at least four bytes whose address    *)
(* verify_address accepts transmits exactly ACK, 0x55, 0x00, then writes   *)
(* the word at the address to MSP and branches to the word at address + 4; *)
(* control does not come back and nothing more is transmitted.             *)
(***************************************************************************)
C2_GoHandOff ==
  (Dispatched(BL_GO_TO_ADDR, 4) /\ verify_address(PayloadAddr(arg.payload)) = ADDR_VALID)
  => /\ KindsOf(log) = << "tx", "tx", "tx", "delay", "read32", "msp", "read32", "branch" >>
     /\ TxOf(log) = << BL_ACK, BL_GO_TO_ADDR, 0 >>
     /\ log[5][2] = PayloadAddr(arg.payload)
     /\ log[6][2] = MemWord(mem, PayloadAddr(arg.payload))
     /\ log[7][2] = AddU32(PayloadAddr(arg.payload), 4)
     /\ log[8][2] = MemWord(mem, AddU32(PayloadAddr(arg.payload), 4))
     /\ msp = MemWord(mem, PayloadAddr(arg.payload))
     /\ pc = "App"
     /\ ~ENABLED Next
     /\ ~ENABLED UnitNext

C2_Witness ==
  /\ Dispatched(BL_GO_TO_ADDR, 4)
  /\ PayloadAddr(arg.payload) = ADDR_SRAM1_APP
  /\ pc = "App"
  /\ msp = MemWord(mem, ADDR_SRAM1_APP)

(***************************************************************************)
(* C3.  A GO_TO_ADDR request whose address lies outside all four regions   *)
(* is answered with the single byte NACK; MSP is not written, nothing is   *)
(* branched to, and the handler returns to the serve loop.                 *)
(***************************************************************************)
C3_GoGuard ==
  (Dispatched(BL_GO_TO_ADDR, 4) /\ ~InSomeRegion(PayloadAddr(arg.payload)))
  => /\ KindsOf(log) = << "tx" >>
     /\ TxOf(log) = << BL_NACK >>
     /\ msp = << >>
     /\ pc = "UnitDone"

C3_Witness ==
  /\ Dispatched(BL_GO_TO_ADDR, 4)
  /\ PayloadAddr(arg.payload) = ADDR_MAX
  /\ TxOf(log) = << BL_NACK >>
  /\ msp = << >>

(***************************************************************************)
(* C4.  A frame with length byte 5..199 whose last four bytes are not the  *)
(* CRC-32 of the bytes before them makes the serve loop transmit exactly   *)
(* one byte 0x7F, run neither the parser nor a handler, leave MSP and      *)
(* memory alone, and wait for a length byte again.                         *)
(***************************************************************************)
C4_IntegrityRejection ==
  (Processed /\ buffer[1] >= 5 /\ buffer[1] <= 199 /\ ~CrcMatches(buffer))
  => /\ KindsOf(log) = << "verify_frame_crc", "tx" >>
     /\ TxOf(log) = << BL_NACK >>
     /\ msp = << >>
     /\ pc = "AwaitLength"

C4_Witness ==
  /\ Processed
  /\ buffer = Corrupt(GetVerFrame)
  /\ TxOf(log) = << BL_NACK >>
  /\ pc = "AwaitLength"

(***************************************************************************)
(* C5.  The MEM_READ handler, given the 5-byte payload addr (u32 LE), len  *)
(* with an address verify_address accepts, replies ACK, 0x59, len and then *)
(* the len memory bytes at addr, addr+1, ... in that order.                *)
(***************************************************************************)
C5_MemReadPayload ==
  (/\ Dispatched(BL_MEM_READ, 5)
   /\ Len(arg.payload) = 5
   /\ verify_address(PayloadAddr(arg.payload)) = ADDR_VALID)
  => TxOf(log) = << BL_ACK, BL_MEM_READ, arg.payload[5] >>
                 \o MemBytes(mem, PayloadAddr(arg.payload), arg.payload[5])

C5_Witness ==
  /\ Dispatched(BL_MEM_READ, 5)
  /\ arg.payload = AddrBytes(FLASH_BASE) \o << 4 >>
  /\ TxOf(log) = << BL_NACK >>

(***************************************************************************)
(* C6.  For a raw frame f with len(f) = f[0] + 1 and 5 <= f[0] <= 199,     *)
(* CommandPacket::parse returns a packet with length f[0], command f[1],   *)
(* the f[0] - 5 payload bytes f[2 .. len(f)-4] and the little-endian u32   *)
(* of the last four bytes as crc.                                          *)
(***************************************************************************)
C6_ParserAcceptance ==
  (/\ call = "parse"
   /\ Len(arg.frame) >= 1
   /\ Len(arg.frame) = arg.frame[1] + 1
   /\ arg.frame[1] >= 5
   /\ arg.frame[1] <= 199)
  => /\ ret.packet.kind = "Some"
     /\ ret.packet.length = arg.frame[1]
     /\ ret.packet.command = arg.frame[2]
     /\ ret.packet.payload = Slice(arg.frame, 2, Len(arg.frame) - 4)
     /\ ret.packet.payload_len = arg.frame[1] - 5
     /\ ret.packet.crc = from_le_bytes(arg.frame[Len(arg.frame) - 3],
                                       arg.frame[Len(arg.frame) - 2],
                                       arg.frame[Len(arg.frame) - 1],
                                       arg.frame[Len(arg.frame)])

C6_Witness ==
  call = "parse" /\ Len(arg.frame) = 6 /\ arg.frame[1] = 5 /\ ret.packet.kind = "None"

(***************************************************************************)
(* C7.  CommandPacket::parse returns no packet, and does not panic, when   *)
(* len(f) < 6, or f[0] + 1 # len(f), or f[0] < 5, or f[0] - 5 > 197.       *)
(***************************************************************************)
C7_ParserRejection ==
  (call = "parse"
   /\ (\/ Len(arg.frame) < 6
       \/ arg.frame[1] + 1 # Len(arg.frame)
       \/ arg.frame[1] < 5
       \/ arg.frame[1] - 5 > 197))
  => ret.packet.kind = "None"

C7_Witness ==
  call = "parse" /\ arg.frame = << 0, 74, 111, 148 >> /\ ret.packet.kind = "panic"

(***************************************************************************)
(* C8.  A frame built as Length | Command | payload | CRC-32 verifies;     *)
(* the same frame with any single byte replaced by a different value does  *)
(* not; a frame shorter than six bytes does not.                           *)
(***************************************************************************)
C8_VerifyIffCrcMatch ==
  call = "verify_frame_crc"
  => /\ (Len(arg.frame) < 6 => ret.ok = FALSE)
     /\ (Len(arg.frame) >= 6 /\ arg.pos = 0 => ret.ok = TRUE)
     /\ (Len(arg.frame) >= 6 /\ arg.pos > 0 => ret.ok = FALSE)

C8_Witness ==
  /\ call = "verify_frame_crc"
  /\ Len(arg.frame) = MaxPayload + 6
  /\ arg.pos = 3
  /\ arg.frame # arg.built
  /\ ret.ok = FALSE

(***************************************************************************)
(* C9.  Every address lies in at most one of the four regions SRAM1,       *)
(* SRAM2, Flash, BackupSRAM, each taken as base <= a <= base + size.       *)
(***************************************************************************)
C9_RegionsDisjoint ==
  call = "validate" => Cardinality({ region \in Regions : Contains(region, arg.address) }) <= 1

C9_Witness ==
  call = "validate" /\ arg.address = SRAM2_BASE /\ ret.region = "SRAM1"

(***************************************************************************)
(* C10.  verify_address(a) is ADDR_VALID exactly when a lies in one of the *)
(* four regions, which is exactly when identify_memory_region(a) is not    *)
(* Unknown; otherwise it is ADDR_INVALID.                                  *)
(***************************************************************************)
C10_ValidatorAgreement ==
  call = "validate"
  => /\ (ret.verdict = ADDR_VALID <=> InSomeRegion(arg.address))
     /\ (ret.verdict = ADDR_VALID <=> ret.region # "Unknown")
     /\ (ret.verdict # ADDR_VALID => ret.verdict = ADDR_INVALID)

C10_Witness ==
  /\ call = "validate"
  /\ arg.address = BKPSRAM_END
  /\ ret.verdict = ADDR_VALID
  /\ ret.region = "BackupSram"

(***************************************************************************)
(* C11.  Once the serve loop has read a length byte L it reads the L       *)
(* remaining bytes of the frame before it transmits any response byte and  *)
(* before it goes back to waiting for a length byte, whatever L is and     *)
(* whatever the UART reads return.                                         *)
(***************************************************************************)
C11_NoMidFrameAbort ==
  [][ /\ (log' # log /\ TxOf(log') # << >>)
         => \/ (pc = "AwaitLength" /\ errs' # errs)
            \/ (pc = "AwaitLength" /\ rx # << >> /\ Head(rx) = 0)
            \/ (pc = "AwaitBody" /\ Len(buffer') = frame_len)
      /\ (pc = "AwaitBody" /\ pc' = "AwaitLength") => Len(buffer') = frame_len
    ]_vars

C11_Witness ==
  /\ pc = "AwaitLength"
  /\ Len(buffer) >= 2
  /\ Len(buffer) < frame_len
  /\ TxOf(log) = << BL_NACK >>

(***************************************************************************)
(* C12.  The serve loop never halts or panics: an iteration that has       *)
(* assembled a frame ends waiting for a length byte again unless it ended  *)
(* in the jump of GO_TO_ADDR; and if the UART reads complete (no byte      *)
(* waits forever), a frame whose remaining bytes are on the wire brings    *)
(* the loop back to AwaitLength.                                           *)
(***************************************************************************)
C12_NoErrorIsFatal ==
  /\ [](pc # "Halt")
  /\ [](Processed => (pc = "AwaitLength" \/ (pc = "App" /\ msp # << >>)))
  /\ ([]<>(~ReadPending)
        => ((pc = "AwaitBody" /\ Len(rx) >= frame_len - Len(buffer))
              ~> (pc = "AwaitLength" \/ pc = "App")))

C12_Witness ==
  /\ Processed
  /\ buffer = GetVerFrame
  /\ KindsOf(log) = << "verify_frame_crc", "parse", "tx" >>
  /\ pc = "AwaitLength"

\* the calls on the flash controller and the option-byte register in effects
FlashKinds == { "clear_all_err_flags", "erase", "program", "optcr" }

\* the values of the effects of one kind, in order
ValuesOf(effects, kind) ==
  LET sel == SelectSeq(effects, LAMBDA e : e[1] = kind)
  IN  [ k \in 1 .. Len(sel) |-> sel[k][2] ]

StubCommands ==
  { BL_FLASH_ERASE, BL_MEM_WRITE, BL_EN_RW_PROTECT, BL_DIS_R_W_PROTECT, BL_OTP_READ }

(***************************************************************************)
(* C13.  The handlers of FLASH_ERASE, MEM_WRITE, EN_RW_PROTECT,            *)
(* DIS_R_W_PROTECT and OTP_READ transmit the single byte NACK and do       *)
(* nothing else, for every payload; no dispatched command erases or        *)
(* programs flash or writes the option-byte register.                      *)
(***************************************************************************)
C13_StubsLeaveDeviceUntouched ==
  call = "dispatch"
  => /\ (arg.command \in StubCommands => (log = send_nack /\ pc = "UnitDone"))
     /\ (\A k \in 1 .. Len(log) : log[k][1] \notin FlashKinds)

C13_Witness ==
  /\ Dispatched(BL_FLASH_ERASE, 2)
  /\ arg.payload = << 6, 5 >>
  /\ log = send_nack

(***************************************************************************)
(* C14.  execute_flash_erase with sector_number <= 7 and                   *)
(* number_of_sectors <= 8, no erase failing, erases exactly the sectors    *)
(* sector_number .. sector_number + min(number_of_sectors,                 *)
(* 8 - sector_number) - 1, once each in ascending order, and succeeds;     *)
(* with sector_number = 0xFF it erases exactly sectors 0..7; no sector     *)
(* above 7 is ever erased.                                                 *)
(***************************************************************************)
C14_EraseBounds ==
  call = "execute_flash_erase"
  => LET s == arg.sector_number
         n == arg.number_of_sectors
         m == IF n < 8 - s THEN n ELSE 8 - s
     IN  /\ (\A k \in 1 .. Len(log) : log[k][1] = "erase" => log[k][2] <= 7)
         /\ (s <= 7 /\ n <= 8 /\ arg.failing = { })
            => (/\ ValuesOf(log, "erase") = [ k \in 1 .. m |-> s + k - 1 ]
                /\ ret.result = "Ok")
         /\ (s = 255 /\ n <= 8 /\ arg.failing = { })
            => (/\ ValuesOf(log, "erase") = << 0, 1, 2, 3, 4, 5, 6, 7 >>
                /\ ret.result = "Ok")

C14_Witness ==
  /\ call = "execute_flash_erase"
  /\ arg.sector_number = 6
  /\ arg.number_of_sectors = 5
  /\ arg.failing = { }
  /\ ValuesOf(log, "erase") = << 6, 7 >>
  /\ ret.result = "Ok"

(***************************************************************************)
(* C15.  Whenever CommandPacket::parse returns a packet, payload_len + 5   *)
(* is its length field and payload_len <= 197, so payload[..payload_len]   *)
(* is a valid slice of the 197-byte carrier.                               *)
(***************************************************************************)
C15_LengthPayloadLaw ==
  (call = "parse" /\ ret.packet.kind = "Some")
  => /\ ret.packet.payload_len + 5 = ret.packet.length
     /\ ret.packet.payload_len <= 197
     /\ ret.packet.payload_len = Len(ret.packet.payload)

C15_Witness ==
  /\ call = "parse"
  /\ ret.packet.kind = "Some"
  /\ ret.packet.length = 202
  /\ ret.packet.payload_len = 197

(***************************************************************************)
(* C16.  calculate_crc of the empty sequence is 0xFFFFFFFF and             *)
(* calculate_crc of the single byte 0x00 is 0xC704DD7B.                    *)
(***************************************************************************)
C16_CrcGroundTruth ==
  call = "calculate_crc"
  => /\ (arg.frame = << >> => ret.crc = << \HFFFF, \HFFFF >>)
     /\ (arg.frame = << 0 >> => ret.crc = << \HC704, \HDD7B >>)

\* C16 as the specification states it: the CRC of the single byte 0x00 is
\* 0x4F5344CD
C16_CrcAsStated ==
  call = "calculate_crc"
  => /\ (arg.frame = << >> => ret.crc = << \HFFFF, \HFFFF >>)
     /\ (arg.frame = << 0 >> => ret.crc = << \H4F53, \H44CD >>)

C16_Witness ==
  call = "calculate_crc" /\ arg.frame = << 0 >> /\ ret.crc = << \HC704, \HDD7B >>

\* the twelve command codes 0x51 .. 0x5C
HelpCodes ==
  << \H51, \H52, \H53, \H54, \H55, \H56, \H57, \H58, \H59, \H5A, \H5B, \H5C >>

(***************************************************************************)
(* C17.  The GET_HELP handler transmits ACK, 0x52, 12 and then the twelve  *)
(* command codes 0x51 .. 0x5C in that order; the dispatch has an arm for   *)
(* exactly these codes, and every other code is answered with NACK.        *)
(***************************************************************************)
C17_HelpCompleteness ==
  call = "dispatch"
  => /\ (arg.command = BL_GET_HELP
           => TxOf(log) = << \HA5, \H52, 12 >> \o HelpCodes)
     /\ ((\E k \in 1 .. 12 : HelpCodes[k] = arg.command)
           <=> (\A k \in 1 .. Len(log) : log[k][1] # "unknown"))
     /\ ((\A k \in 1 .. 12 : HelpCodes[k] # arg.command)
           => (TxOf(log) = << BL_NACK >> /\ pc = "UnitDone"))

C17_Witness ==
  /\ call = "dispatch"
  /\ arg.command = BL_GET_HELP
  /\ Len(TxOf(log)) = 15
  /\ TxOf(log)[15] = \H5C

\* the number of bytes each acknowledging handler announces
FollowLen(command, payload) ==
  CASE command = BL_GET_VER -> 1
    [] command = BL_GET_HELP -> 12
    [] command = BL_GET_CID -> 2
    [] command = BL_GET_RDP_STATUS -> 1
    [] command = BL_GO_TO_ADDR -> 0
    [] command = BL_MEM_READ -> payload[5]
    [] command = BL_READ_SECTOR_P_STATUS -> 2
    [] OTHER -> -1

(***************************************************************************)
(* C18.  The response to a dispatched request is either the single byte    *)
(* NACK, or ACK, the command code of the request, follow_len and exactly   *)
(* follow_len more bytes, with follow_len 1 for GET_VER, 12 for GET_HELP,  *)
(* 2 for GET_CID, 1 for GET_RDP_STATUS, 0 for GO_TO_ADDR, len for MEM_READ *)
(* and 2 for READ_SECTOR_P_STATUS.                                         *)
(***************************************************************************)
C18_ResponseShape ==
  call = "dispatch"
  => LET tx == TxOf(log)
     IN  \/ tx = << BL_NACK >>
         \/ /\ Len(tx) >= 3
            /\ tx[1] = BL_ACK
            /\ tx[2] = arg.command
            /\ tx[3] = FollowLen(arg.command, arg.payload)
            /\ Len(tx) = 3 + tx[3]

C18_Witness ==
  /\ Dispatched(BL_MEM_READ, 6)
  /\ arg.payload[5] = 255
  /\ Len(TxOf(log)) = 258
  /\ TxOf(log)[3] = 255

\* what the boot-time jump does: MSP from the word at 0x08008000, branch to
\* the word at 0x08008004
BootJump(m) ==
  << << "read32", << \H0800, \H8000 >> >>,
     << "msp", MemWord(m, << \H0800, \H8000 >>) >>,
     << "read32", << \H0800, \H8004 >> >>,
     << "branch", MemWord(m, << \H0800, \H8004 >>) >> >>

(***************************************************************************)
(* C19.  The mode-select input is sampled once.  If it is low the serve    *)
(* loop is entered and the boot-time jump never happens; if it is not,     *)
(* the serve loop is never entered, no UART byte is read or written, MSP   *)
(* is loaded from the word at 0x08008000 and control branches to the word  *)
(* at 0x08008004.                                                          *)
(***************************************************************************)
C19_BootSelector ==
  /\ [](pc = "Boot" => (log = << >> /\ msp = << >> /\ sent = 0 /\ errs = 0))
  /\ [][ pc = "Boot"
         => \/ (pc' = "AwaitLength" /\ log' = << >> /\ msp' = << >>)
            \/ (pc' = "App" /\ log' = BootJump(mem) /\ rx' = << >> /\ sent' = 0
                /\ msp' = MemWord(mem, << \H0800, \H8000 >>)) ]_vars
  /\ [][ pc # "Boot" => pc' # "Boot" ]_vars
  /\ []((pc = "App" /\ log = BootJump(mem)) => (~ENABLED Next /\ sent = 0))
  /\ [][ (pc \in { "AwaitLength", "AwaitBody" } /\ pc' = "App")
         => TxOf(log') = << BL_ACK, BL_GO_TO_ADDR, 0 >> ]_vars

C19_Witness ==
  /\ pc = "App"
  /\ log = BootJump(mem)
  /\ msp = MemWord(mem, << \H0800, \H8000 >>)
  /\ sent = 0

\* every byte of the n-byte access at address a lies in one of the regions
AccessInRegions(a, n) == \A d \in 0 .. n - 1 : InSomeRegion(AddU32(a, d))

(***************************************************************************)
(* C20.  Every address read on behalf of a MEM_READ or GO_TO_ADDR request  *)
(* lies inside one of the four regions: addr .. addr+len-1 for MEM_READ,   *)
(* addr .. addr+3 and addr+4 .. addr+7 for GO_TO_ADDR.                     *)
(***************************************************************************)
C20_TrustBoundary ==
  (call = "dispatch" /\ arg.command \in { BL_MEM_READ, BL_GO_TO_ADDR })
  => \A k \in 1 .. Len(log) :
       /\ (log[k][1] = "read8" => AccessInRegions(log[k][2], 1))
       /\ (log[k][1] = "read32" => AccessInRegions(log[k][2], 4))

C20_Witness ==
  /\ Dispatched(BL_GO_TO_ADDR, 4)
  /\ PayloadAddr(arg.payload) = BKPSRAM_END
  /\ pc = "App"
  /\ ValuesOf(log, "read32") = << BKPSRAM_END, AddU32(BKPSRAM_END, 4) >>

(***************************************************************************)
(* C21.  While the serve loop stores body bytes the frame length is        *)
(* between 6 and 200, the index of the next byte written into the 200-byte *)
(* buffer is at least 1 and below the frame length, and the frame given to *)
(* the CRC verification and to the parser is the first L + 1 bytes of the  *)
(* buffer, L being the length byte; no length byte 0..255 is accepted with *)
(* a frame length outside 6..200.                                          *)
(***************************************************************************)
C21_BufferBounds ==
  /\ \A length \in Byte :
       ~length_rejected(length) => (6 <= length + 1 /\ length + 1 <= 200)
  /\ pc = "AwaitBody"
       => /\ 6 <= frame_len /\ frame_len <= 200
          /\ 1 <= Len(buffer) /\ Len(buffer) < frame_len
          /\ frame_len = buffer[1] + 1
  /\ (log # << >> /\ log[1][1] = "verify_frame_crc")
       => /\ Len(buffer) = buffer[1] + 1
          /\ Len(buffer) = frame_len
          /\ Len(buffer) <= 200
          /\ log[1][2] = verify_frame_crc(buffer)

C21_Witness ==
  /\ pc = "AwaitBody"
  /\ frame_len = 200
  /\ buffer[1] = 199
  /\ Len(buffer) > 6
  /\ sent = MaxFrames

(***************************************************************************)
(* C22.  execute_flash_erase returns an error without a single call on the *)
(* flash controller (no error flag cleared, no sector erased) whenever the *)
(* number of sectors is above 8, whatever the sector number, 0xFF          *)
(* included, and whenever the sector number is in 8..0xFE.                 *)
(***************************************************************************)
C22_EraseRejection ==
  (/\ call = "execute_flash_erase"
   /\ \/ arg.number_of_sectors > 8
      \/ (8 <= arg.sector_number /\ arg.sector_number <= 254))
  => /\ ret.result = "Err"
     /\ log = << >>

C22_Witness ==
  /\ call = "execute_flash_erase"
  /\ arg.sector_number = 255
  /\ arg.number_of_sectors = 9
  /\ arg.failing = { }
  /\ ret.result = "Err"
  /\ log = << >>

\* the sectors execute_flash_erase is asked to erase, in order
RequestedSectors(s, n) ==
  IF n > 8 THEN << >>
  ELSE IF s = 255 THEN << 0, 1, 2, 3, 4, 5, 6, 7 >>
  ELSE IF s <= 7 THEN [ k \in 1 .. (IF n < 8 - s THEN n ELSE 8 - s) |-> s + k - 1 ]
  ELSE << >>

\* the 1-based position of the first element of q that satisfies failing, or
\* 0 when there is none
FirstFailure(q, fails(_)) ==
  IF \E k \in 1 .. Len(q) : fails(k)
  THEN CHOOSE k \in 1 .. Len(q) : fails(k) /\ \A j \in 1 .. k - 1 : ~fails(j)
  ELSE 0

\* the error flags are cleared once, before every other call on the controller
ClearedFirst(effects, kind) ==
  /\ effects # << >>
  /\ effects[1] = << "clear_all_err_flags", 0 >>
  /\ \A k \in 2 .. Len(effects) : effects[k][1] = kind

(***************************************************************************)
(* C23.  Flash operations fail fast.  The error flags are cleared before   *)
(* the first erase or program step.  If the erase of a requested sector    *)
(* fails, execute_flash_erase returns a failure, the sectors erased are    *)
(* exactly the requested ones before it and none after it is touched.  If  *)
(* programming the byte at offset k fails, execute_mem_write returns a     *)
(* failure having programmed exactly the offsets 0..k-1, at base + 0 ..    *)
(* base + k - 1, and none after.                                           *)
(***************************************************************************)
C23_FailFast ==
  /\ call = "execute_flash_erase"
       => LET req == RequestedSectors(arg.sector_number, arg.number_of_sectors)
              f   == FirstFailure(req, LAMBDA k : req[k] \in arg.failing)
          IN  /\ log # << >> => ClearedFirst(log, "erase")
              /\ f > 0
                   => /\ ret.result = "Err"
                      /\ ValuesOf(log, "erase") = SubSeq(req, 1, f)
                      /\ SubSeq(ValuesOf(log, "erase"), 1, f - 1) = SubSeq(req, 1, f - 1)
  /\ call = "execute_mem_write"
       => LET data == arg.payload
              f    == FirstFailure(data, LAMBDA k : k - 1 \in arg.failing)
              done == SelectSeq(log, LAMBDA e : e[1] = "program")
          IN  /\ ClearedFirst(log, "program")
              /\ f > 0
                   => /\ ret.result = "Err"
                      /\ Len(done) = f
                      /\ \A k \in 1 .. f :
                           /\ done[k][2] = AddU32(arg.address, k - 1)
                           /\ done[k][3] = data[k]

C23_Witness ==
  /\ call = "execute_mem_write"
  /\ arg.address = FLASH_LAST
  /\ arg.payload = << 90, 165, 90 >>
  /\ arg.failing = { 1, 2 }
  /\ ret.result = "Err"
  /\ log = << << "clear_all_err_flags", 0 >>,
              << "program", FLASH_LAST, 90 >>,
              << "program", << \H0808, 0 >>, 165 >> >>

\* bit j of the natural n
Bit(n, j) == (n \div (2 ^ j)) % 2

\* the values written to the option control register
OptcrWrites(effects) == ValuesOf(effects, "optcr")

(***************************************************************************)
(* C24.  configure_flash_sector_rw_protection, for every value v read from *)
(* the option control register and every sector_details, writes once a     *)
(* value that differs from v in the bits 31, 23..16 and 1 at most.         *)
(* Disable: bit 31 = 0 and bits 23..16 = 0xFF.  Mode 1: bit 31 = 0 and     *)
(* bits 23..16 = the old bits AND NOT sector_details.  Mode 2: bit 31 = 1  *)
(* and bits 23..16 = sector_details.  Bit 1 (OPTSTRT) is set in all three, *)
(* and the function returns only after a read that finds bit 0 (OPTBSY)    *)
(* clear.                                                                  *)
(***************************************************************************)
C24_OptionByteUpdate ==
  (/\ call = "configure_flash_sector_rw_protection"
   /\ (arg.disable \/ arg.protection_mode \in { 1, 2 }))
  => LET v  == arg.optcr
         sd == arg.sector_details
         w  == OptcrWrites(log)[1]
     IN  /\ Len(OptcrWrites(log)) = 1
         /\ log[1] = << "read_optcr", v >>
         /\ log[2][1] = "optcr"
         /\ \A j \in 0 .. 15 : j # 1 => Bit(w[2], j) = Bit(v[2], j)
         /\ \A j \in 8 .. 14 : Bit(w[1], j) = Bit(v[1], j)
         /\ Bit(w[2], 1) = 1
         /\ arg.disable => (Bit(w[1], 15) = 0 /\ w[1] % 256 = 255)
         /\ (~arg.disable /\ arg.protection_mode = 1)
              => /\ Bit(w[1], 15) = 0
                 /\ \A j \in 0 .. 7 : Bit(w[1], j) = Bit(v[1], j) * (1 - Bit(sd, j))
         /\ (~arg.disable /\ arg.protection_mode = 2)
              => (Bit(w[1], 15) = 1 /\ w[1] % 256 = sd)
         /\ \A k \in 3 .. Len(log) :
              /\ log[k][1] = "poll"
              /\ k < Len(log) => log[k][2] = 1
         /\ (pc = "UnitDone" <=> (Len(log) > 2 /\ log[Len(log)] = << "poll", 0 >>))
         /\ (pc = "UnitDone" <=> ret.result = "Ok")

C24_Witness ==
  /\ call = "configure_flash_sector_rw_protection"
  /\ arg.optcr = << \H7F5A, \HAAED >>
  /\ arg.sector_details = \HA5
  /\ arg.protection_mode = 2
  /\ ~arg.disable
  /\ OptcrWrites(log) = << << \HFFA5, \HAAEF >> >>
  /\ Polls(log) = MaxPolls
  /\ pc = "UnitDone"

====
